---- MODULE Spec2Model ----
(***************************************************************************)
(* A model of onprem's SparseStore (src/onprem/ingest/stores/sparse.py):   *)
(* the Whoosh-backed full-text store.  The store's own code is modelled    *)
(* handler by handler; the index engine it calls is modelled by the        *)
(* behaviour of the calls the handlers make (writer lock, buffered writer, *)
(* commit, searcher snapshot, Prefix / Term queries, Results paging).      *)
(***************************************************************************)
EXTENDS Integers, Sequences, FiniteSets, TLC

(***************************************************************************)
(* Bounds of the model.                                                    *)
(***************************************************************************)
\* largest number of records the index holds while it is written to
MaxDocs == 2
\* longest batch handed to add_documents
MaxBatch == 2
\* number of identifiers uuid4 is asked for
MaxUuid == 1

\* caller threads
Threads == {1, 2}

(***************************************************************************)
(* Documents.  A text is a tuple of characters.  A Document has            *)
(* page_content and the metadata keys id and source; an absent metadata    *)
(* key is NoId / NoSource.  "FWx" stands for the full-width letter U+FF58, *)
(* which NFKC maps to "x".                                                 *)
(***************************************************************************)
NoId == 0
NoSource == <<>>
UuidBase == 100

InputDocs ==
    { [id |-> 1,    page_content |-> <<"x">>,   source |-> <<"a", "b">>],
      [id |-> 1,    page_content |-> <<"x", " ", "y">>, source |-> NoSource],
      [id |-> 2,    page_content |-> <<"y">>,   source |-> <<"b", ",", "a">>],
      [id |-> NoId, page_content |-> <<"FWx">>, source |-> <<"a">>] }

\* the prefixes delete_by_prefix is called with
Prefixes == { <<"a">>, <<"b", ",">>, <<"c">> }

\* unicodedata.normalize('NFKC', .) on one character
NFKC(c) == IF c = "FWx" THEN "x" ELSE c

normalize_text(text) == [i \in DOMAIN text |-> NFKC(text[i])]

\* uuid.uuid4().hex: the n-th identifier drawn, distinct from every other id
uuid4(n) == UuidBase + n

\* SparseStore.doc2dict for a document whose metadata keys are declared fields
doc2dict(doc, uuid) ==
    [id            |-> IF doc.id = NoId THEN uuid ELSE doc.id,
     page_content  |-> normalize_text(doc.page_content),
     source        |-> doc.source,
     source_search |-> doc.source]

(***************************************************************************)
(* Sequence helpers.                                                       *)
(***************************************************************************)
\* the subsequence of s at the positions not in D
DropAt(s, D) ==
    LET F[i \in 0..Len(s)] ==
            IF i = 0 THEN <<>>
            ELSE IF i \in D THEN F[i - 1] ELSE Append(F[i - 1], s[i])
    IN  F[Len(s)]

IsPrefix(p, s) == Len(p) <= Len(s) /\ \A i \in 1..Len(p) : p[i] = s[i]

\* the maximal runs of s that hold no separator character
SplitOn(s, seps) ==
    { SubSeq(s, i, j) : <<i, j>> \in
        { ij \in (1..Len(s)) \X (1..Len(s)) :
            /\ ij[1] <= ij[2]
            /\ \A k \in ij[1]..ij[2] : s[k] \notin seps
            /\ (ij[1] = 1 \/ s[ij[1] - 1] \in seps)
            /\ (ij[2] = Len(s) \/ s[ij[2] + 1] \in seps) } }

(***************************************************************************)
(* The schema: the terms a stored record is indexed under.                 *)
(***************************************************************************)
\* id=ID(unique=True): the whole value is one term;
\* source=KEYWORD(commas=True): one term per comma-separated part
Terms(field, rec) ==
    IF field = "id" THEN {rec.id}
    ELSE IF rec.source = NoSource THEN {}
    ELSE SplitOn(rec.source, {","})

\* searcher.search(Prefix(field, prefix), limit=None): the matching docnums
PrefixHits(idx, field, prefix) ==
    { n \in DOMAIN idx : \E tm \in Terms(field, idx[n]) : IsPrefix(prefix, tm) }

\* the records whose stored field value starts with prefix
StartsWithPrefix(idx, prefix) ==
    { n \in DOMAIN idx : idx[n].source # NoSource /\ IsPrefix(prefix, idx[n].source) }

(***************************************************************************)
(* The writer: a buffered transaction on the segments it was opened on.    *)
(***************************************************************************)
NoWriter == [base |-> <<>>, dels |-> {}, adds |-> <<>>]

\* self.ix.writer(): the writer starts from the committed index
NewWriter(idx) == [base |-> idx, dels |-> {}, adds |-> <<>>]

\* writer.update_document(**d): deletes the committed records with d's unique
\* id and buffers d; a record buffered earlier by this writer is not replaced
update_document(w, d) ==
    [w EXCEPT !.dels = @ \cup { n \in DOMAIN w.base : w.base[n].id = d.id },
              !.adds = Append(@, d)]

\* writer.delete_by_term(field, value)
delete_by_term(w, field, value) ==
    [w EXCEPT !.dels = @ \cup { n \in DOMAIN w.base : value \in Terms(field, w.base[n]) }]

\* writer.delete_document(docnum) for every hit
delete_documents(w, hits) == [w EXCEPT !.dels = @ \cup hits]

\* writer.commit(): the buffered deletions and additions become visible at once
commit(w) == DropAt(w.base, w.dels) \o w.adds

\* the loop of add_documents over the mapped batch
RECURSIVE update_all(_, _)
update_all(w, ds) ==
    IF ds = <<>> THEN w ELSE update_all(update_document(w, Head(ds)), Tail(ds))

\* doc2dict over a batch, drawing a fresh uuid for each document without id
RECURSIVE map_batch(_, _)
map_batch(docs, ctr) ==
    IF docs = <<>> THEN <<>>
    ELSE LET fresh == Head(docs).id = NoId
         IN  <<doc2dict(Head(docs), uuid4(ctr + 1))>>
                 \o map_batch(Tail(docs), IF fresh THEN ctr + 1 ELSE ctr)

NoIdCount(docs) == Cardinality({ i \in DOMAIN docs : docs[i].id = NoId })

Batches == UNION { [1..n -> InputDocs] : n \in 1..MaxBatch }

\* SparseStore.get_size(): ix.doc_count()
get_size(idx) == Len(idx)

VARIABLES
    persist_directory,  \* "dir", or "None" for the in-memory store
    dirExists,          \* an index named index_name exists in persist_directory
    index,              \* the committed records, by docnum
    lock,               \* the index's WRITELOCK: [held, owner], owner 0 = an abandoned writer
    th,                 \* per thread: where its call is, its argument, its writer, its hits
    searchers,          \* number of searchers opened and not closed
    uuidCtr,            \* number of uuids drawn
    last,               \* the call that returned last: [op, status, val, args]
    qres,               \* what the last query() call was given and returned
    gen,                \* the generator a query(return_generator=True) call returned
    pq,                 \* the last calls of _preprocess_query: [q, out]
    sem,                \* what the last semantic_search() call was given and returned
    docsGen,            \* the sequence a get_all_docs() call returned
    mapped              \* the last call of doc2dict: its metadata and its result

storeVars == <<persist_directory, dirExists, lock, th, uuidCtr, last>>
callVars == <<sem, docsGen, mapped>>
vars == <<persist_directory, dirExists, index, lock, th, searchers, uuidCtr, last,
          qres, gen, pq, sem, docsGen, mapped>>

Idle == [pc |-> "idle", arg |-> <<>>, w |-> NoWriter, hits |-> {}]
Free == [held |-> FALSE, owner |-> 0]
Abandoned == [held |-> TRUE, owner |-> 0]

Returned(op, status, val, args) ==
    [op |-> op, status |-> status, val |-> val, args |-> args]

NoResult == [op |-> "none"]
NoGen == [state |-> "none", pending |-> <<>>, open |-> FALSE]
NoCall == [op |-> "none"]

Init ==
    /\ persist_directory \in {"dir", "None"}
    /\ dirExists = (persist_directory = "dir")
    /\ index = <<>>
    /\ lock = Free
    /\ th = [t \in Threads |-> Idle]
    /\ searchers = 0
    /\ uuidCtr = 0
    /\ last = Returned("init", "ok", 0, <<>>)
    /\ qres = NoResult
    /\ gen = NoGen
    /\ pq = <<>>
    /\ sem = NoCall
    /\ docsGen = NoGen
    /\ mapped = NoCall

\* the store's index can be opened: in memory, or present in persist_directory
Usable == persist_directory = "None" \/ dirExists

\* self.ix.writer() with the default timeout=0.0 while the lock is held: a file
\* lock (persistent store) is tried once without blocking and LockError is
\* raised; the in-memory store's lock is a threading.Lock, whose acquire() waits
LockOutcome ==
    IF ~lock.held THEN "acquired"
    ELSE IF persist_directory = "None" THEN "blocks" ELSE "LockError"

\* (mutant of abandon: the batch written so far is committed when the call raises)
abandon_commits(idx, w) == commit(w)

\* a handler that raises between self.ix.writer() and writer.commit() has no
\* except / finally: the writer is neither committed nor cancelled, and the
\* committed index stays as it is
abandon(idx, w) == idx

\* the write lock after a call raised: commit() releases it in its own cleanup,
\* a writer abandoned before commit() keeps it
LockAfterRaise(atCommit) == IF atCommit THEN Free ELSE Abandoned

(***************************************************************************)
(* add_documents (update_documents builds Documents and calls it).         *)
(***************************************************************************)
\* line 136: self.ix.writer(...) takes the write lock or raises LockError;
\* lines 137-139: every document is mapped and buffered in the writer
AddOpen(t) ==
    /\ th[t].pc = "idle" /\ Usable
    /\ LockOutcome # "blocks"
    /\ \E docs \in Batches :
        /\ Len(index) + Len(docs) <= MaxDocs
        /\ uuidCtr + NoIdCount(docs) <= MaxUuid
        /\ IF LockOutcome = "LockError"
           THEN /\ last' = Returned("add_documents", "LockError", 0, <<>>)
                /\ UNCHANGED <<lock, th, uuidCtr>>
           ELSE /\ lock' = [held |-> TRUE, owner |-> t]
                /\ th' = [th EXCEPT ![t] =
                            [pc |-> "add_writing", arg |-> <<>>,
                             w |-> update_all(NewWriter(index), map_batch(docs, uuidCtr)),
                             hits |-> {}]]
                /\ uuidCtr' = uuidCtr + NoIdCount(docs)
                /\ UNCHANGED last
    /\ UNCHANGED <<persist_directory, dirExists, index, searchers, qres, gen, pq, callVars>>

\* line 140: writer.commit(optimize=optimize)
AddCommit(t) ==
    /\ th[t].pc = "add_writing"
    /\ index' = commit(th[t].w)
    /\ lock' = Free
    /\ th' = [th EXCEPT ![t] = Idle]
    /\ last' = Returned("add_documents", "ok", 0, <<>>)
    /\ UNCHANGED <<persist_directory, dirExists, searchers, uuidCtr, qres, gen, pq, callVars>>

\* lines 137-140: doc2dict, update_document or commit raises
AddRaise(t) ==
    /\ th[t].pc = "add_writing"
    /\ \E atCommit \in BOOLEAN : lock' = LockAfterRaise(atCommit)
    /\ index' = abandon(index, th[t].w)
    /\ th' = [th EXCEPT ![t] = Idle]
    /\ last' = Returned("add_documents", "raised", 0, <<>>)
    /\ UNCHANGED <<persist_directory, dirExists, searchers, uuidCtr, qres, gen, pq, callVars>>

(***************************************************************************)
(* remove_document(value, field)                                           *)
(***************************************************************************)
RemoveArgs == { <<"id", 1>>, <<"id", 2>>, <<"source", <<"a">>>> }

\* lines 149-150: self.ix.writer(), writer.delete_by_term(field, value)
RemoveOpen(t) ==
    /\ th[t].pc = "idle" /\ Usable
    /\ LockOutcome # "blocks"
    /\ \E fv \in RemoveArgs :
        IF LockOutcome = "LockError"
        THEN /\ last' = Returned("remove_document", "LockError", 0, <<>>)
             /\ UNCHANGED <<lock, th>>
        ELSE /\ lock' = [held |-> TRUE, owner |-> t]
             /\ th' = [th EXCEPT ![t] =
                         [pc |-> "rm_writing", arg |-> <<>>,
                          w |-> delete_by_term(NewWriter(index), fv[1], fv[2]),
                          hits |-> {}]]
             /\ UNCHANGED last
    /\ UNCHANGED <<persist_directory, dirExists, index, searchers, uuidCtr, qres, gen, pq, callVars>>

\* line 151: writer.commit(optimize=optimize)
RemoveCommit(t) ==
    /\ th[t].pc = "rm_writing"
    /\ index' = commit(th[t].w)
    /\ lock' = Free
    /\ th' = [th EXCEPT ![t] = Idle]
    /\ last' = Returned("remove_document", "ok", 0, <<>>)
    /\ UNCHANGED <<persist_directory, dirExists, searchers, uuidCtr, qres, gen, pq, callVars>>

\* lines 150-151: delete_by_term or commit raises
RemoveRaise(t) ==
    /\ th[t].pc = "rm_writing"
    /\ \E atCommit \in BOOLEAN : lock' = LockAfterRaise(atCommit)
    /\ index' = abandon(index, th[t].w)
    /\ th' = [th EXCEPT ![t] = Idle]
    /\ last' = Returned("remove_document", "raised", 0, <<>>)
    /\ UNCHANGED <<persist_directory, dirExists, searchers, uuidCtr, qres, gen, pq, callVars>>

(***************************************************************************)
(* delete_by_prefix(prefix, field), called by remove_source with           *)
(* field='source'                                                          *)
(***************************************************************************)
\* lines 181-184, 190-191: the searcher is opened and searched; with no hit
\* the with block is left at once and 0 is returned
DbpScan(t) ==
    /\ th[t].pc = "idle" /\ Usable
    /\ \E prefix \in Prefixes :
        LET results == PrefixHits(index, "source", prefix)
        IN  IF results = {}
            THEN /\ last' = Returned("delete_by_prefix", "ok", 0, prefix)
                 /\ UNCHANGED <<th, searchers>>
            ELSE /\ th' = [th EXCEPT ![t] =
                             [pc |-> "dbp_scanned", arg |-> prefix,
                              w |-> NoWriter, hits |-> results]]
                 /\ searchers' = searchers + 1
                 /\ UNCHANGED last
    /\ UNCHANGED <<persist_directory, dirExists, index, lock, uuidCtr, qres, gen, pq, callVars>>

\* lines 185-187: self.ix.writer() takes the lock or raises LockError; every
\* hit's docnum is deleted in the writer, which raises IndexingError for a
\* docnum its segments do not hold.  The with block closes the searcher
\* when the call raises.
DbpOpenWriter(t) ==
    /\ th[t].pc = "dbp_scanned"
    /\ LockOutcome # "blocks"
    /\ IF LockOutcome = "LockError"
       THEN /\ last' = Returned("delete_by_prefix", "LockError", 0, th[t].arg)
            /\ th' = [th EXCEPT ![t] = Idle]
            /\ searchers' = searchers - 1
            /\ UNCHANGED lock
       ELSE IF \E h \in th[t].hits : h > Len(index)
       THEN /\ last' = Returned("delete_by_prefix", "raised", 0, th[t].arg)
            /\ th' = [th EXCEPT ![t] = Idle]
            /\ searchers' = searchers - 1
            /\ lock' = Abandoned
       ELSE /\ lock' = [held |-> TRUE, owner |-> t]
            /\ th' = [th EXCEPT ![t].pc = "dbp_writing",
                                ![t].w = delete_documents(NewWriter(index), th[t].hits)]
            /\ UNCHANGED <<last, searchers>>
    /\ UNCHANGED <<persist_directory, dirExists, index, uuidCtr, qres, gen, pq, callVars>>

\* lines 188-189: writer.commit(), return len(results); the searcher is closed
DbpCommit(t) ==
    /\ th[t].pc = "dbp_writing"
    /\ index' = commit(th[t].w)
    /\ lock' = Free
    /\ searchers' = searchers - 1
    /\ th' = [th EXCEPT ![t] = Idle]
    /\ last' = Returned("delete_by_prefix", "ok", Cardinality(th[t].hits), th[t].arg)
    /\ UNCHANGED <<persist_directory, dirExists, uuidCtr, qres, gen, pq, callVars>>

\* lines 186-188: delete_document or commit raises; the searcher is closed
DbpRaise(t) ==
    /\ th[t].pc = "dbp_writing"
    /\ \E atCommit \in BOOLEAN : lock' = LockAfterRaise(atCommit)
    /\ index' = abandon(index, th[t].w)
    /\ searchers' = searchers - 1
    /\ th' = [th EXCEPT ![t] = Idle]
    /\ last' = Returned("delete_by_prefix", "raised", 0, th[t].arg)
    /\ UNCHANGED <<persist_directory, dirExists, uuidCtr, qres, gen, pq, callVars>>

(***************************************************************************)
(* erase(confirm)                                                          *)
(***************************************************************************)
\* index.exists_in(dirname, indexname): os.path.exists(None) raises TypeError
exists_in(dir, present) ==
    IF dir = "None" THEN "TypeError" ELSE IF present THEN "True" ELSE "False"

\* (mutant of shall: the answer is not looked at)
shall_any_answer(confirm, answer) == TRUE

\* lines 232-238: shall = True; with confirm, shall = (input(...) == "Y")
shall(confirm, answer) == IF confirm THEN answer = "Y" ELSE TRUE

\* lines 239-248.  index.create_in writes a new, empty table of contents for
\* the index; self.ix reads the newest table of contents at every call.
Erase(t) ==
    /\ th[t].pc = "idle"
    /\ \E confirm \in BOOLEAN, answer \in {"Y", "n"} :
        /\ (~confirm => answer = "n")
        /\ IF ~shall(confirm, answer)
           THEN /\ last' = Returned("erase", "ok", 0, <<confirm, answer>>)
                /\ UNCHANGED index
           ELSE LET ex == exists_in(persist_directory, dirExists)
                IN  /\ last' = Returned("erase",
                                        IF ex = "TypeError" THEN "raised" ELSE "ok",
                                        IF ex = "True" THEN 1 ELSE 0,
                                        <<confirm, answer>>)
                    /\ index' = IF ex = "True" THEN <<>> ELSE index
    /\ UNCHANGED <<persist_directory, dirExists, lock, th, searchers, uuidCtr, qres, gen, pq, callVars>>

\* the index's files are removed from persist_directory behind the store's
\* back; the model follows the store from there only through erase
IndexDirRemoved ==
    /\ persist_directory = "dir" /\ dirExists
    /\ \A t \in Threads : th[t].pc = "idle"
    /\ ~lock.held /\ searchers = 0
    /\ dirExists' = FALSE
    /\ index' = <<>>
    /\ UNCHANGED <<persist_directory, lock, th, searchers, uuidCtr, last, qres, gen, pq, callVars>>

Step(t) ==
    \/ AddOpen(t) \/ AddCommit(t) \/ AddRaise(t)
    \/ RemoveOpen(t) \/ RemoveCommit(t) \/ RemoveRaise(t)
    \/ DbpScan(t) \/ DbpOpenWriter(t) \/ DbpCommit(t) \/ DbpRaise(t)
    \/ Erase(t)

Next == (\E t \in Threads : Step(t)) \/ IndexDirRemoved

Spec == Init /\ [][Next]_vars

\* one caller thread: no call overlaps another
NextSeq == Step(1) \/ IndexDirRemoved

SpecSeq == Init /\ [][NextSeq]_vars

(***************************************************************************)
(* query(): preprocessing, parsing, searching, paging.                     *)
(***************************************************************************)
\* largest limit and page a query is run with
MaxLimit == 2
MaxPage == 4
\* largest number of records in an index that is queried
MaxIndexLen == 3
\* most searchers left open at once
MaxSearchers == 2

WordChars == {"x", "y", "z"}
Blanks == {" "}
Quote == "\""

\* re.sub(r'(\w)\?([\s\"]|$)', r'\1\2', q) from position i on: a word character
\* followed by '?' and then a blank, a quote or the end loses the '?'
RECURSIVE sub_question_marks(_, _)
sub_question_marks(q, i) ==
    IF i > Len(q) THEN <<>>
    ELSE IF /\ q[i] \in WordChars
            /\ i + 1 <= Len(q) /\ q[i + 1] = "?"
            /\ (i + 2 > Len(q) \/ q[i + 2] \in Blanks \cup {Quote})
         THEN IF i + 2 > Len(q)
              THEN <<q[i]>>
              ELSE <<q[i], q[i + 2]>> \o sub_question_marks(q, i + 3)
         ELSE <<q[i]>> \o sub_question_marks(q, i + 1)

\* (mutant of strip_last_question_mark: the last question mark is kept)
keep_last_question_mark(q) == q

\* lines 260-261: if query.endswith('?'): query = query[:-1]
strip_last_question_mark(q) ==
    IF Len(q) > 0 /\ q[Len(q)] = "?" THEN SubSeq(q, 1, Len(q) - 1) ELSE q

\* SparseStore._preprocess_query
_preprocess_query(q) == sub_question_marks(strip_last_question_mark(q), 1)

\* MultifieldParser(fields, ..., group=OrGroup).parse(q): the words of the text
ParseTerms(q) == SplitOn(q, Blanks \cup {Quote})

\* page_content=TEXT(analyzer=StemmingAnalyzer()): the words of the content
Tokens(rec) == SplitOn(rec.page_content, Blanks)

\* a term matches a token; '?' in a term is the single-character wildcard
TermMatches(tm, tok) ==
    Len(tm) = Len(tok) /\ \A i \in 1..Len(tm) : tm[i] = "?" \/ tm[i] = tok[i]

\* the number of the query's terms a record matches (OrGroup: more is better)
Score(rec, terms) ==
    Cardinality({ tm \in terms : \E tok \in Tokens(rec) : TermMatches(tm, tok) })

\* (mutant of PassesFilter: the filter terms are OR-ed)
PassesAnyFilter(rec, filters) ==
    filters = {} \/ \E f \in filters : f[2] \in Terms(f[1], rec)

\* lines 307-311: combined_filter = And([Term(k, filters[k]) for k in filters])
PassesFilter(rec, filters) ==
    \A f \in filters : f[2] \in Terms(f[1], rec)

\* line 303: q = f'({q}) AND ({where_document})'; the docnums the composed
\* query matches under the filter
Matching(idx, q, where, filters) ==
    { n \in DOMAIN idx :
        /\ Score(idx[n], ParseTerms(q)) > 0
        /\ (where # <<>> => Score(idx[n], ParseTerms(where)) > 0)
        /\ PassesFilter(idx[n], filters) }

\* the matching docnums, best score first, lower docnum first among equals
RECURSIVE Ranked(_, _, _)
Ranked(idx, terms, M) ==
    IF M = {} THEN <<>>
    ELSE LET best == CHOOSE n \in M : \A m \in M :
                        \/ Score(idx[n], terms) > Score(idx[m], terms)
                        \/ (Score(idx[n], terms) = Score(idx[m], terms) /\ n <= m)
         IN  <<best>> \o Ranked(idx, terms, M \ {best})

Min(a, b) == IF a <= b THEN a ELSE b
\* math.ceil(a / b) for a >= 0, b >= 1
Ceil(a, b) == (a + b - 1) \div b
\* Python's s[lo:hi] for 0 <= lo (1-based SubSeq), empty when lo is negative and hi is 0
Slice(s, lo, hi) == IF lo < 0 THEN <<>> ELSE SubSeq(s, lo + 1, Min(hi, Len(s)))

\* searcher.search(query, limit=limit, filter=...): a Results object, of which
\* top holds the scored hits and total is len(results)
search(ranked, limit) ==
    [top |-> SubSeq(ranked, 1, Min(limit, Len(ranked))), total |-> Len(ranked)]

\* Results.scored_length(): the number of scored hits, at most the limit
scored_length(results) == Len(results.top)

\* searcher.search_page(query, pagenum, pagelen): search(limit=pagenum*pagelen)
\* wrapped in a ResultsPage, which clamps pagenum to the last page; iterating
\* it yields results[offset:offset + pagelen]
search_page(ranked, pagenum, pagelen) ==
    LET results   == search(ranked, pagenum * pagelen)
        pagecount == Ceil(results.total, pagelen)
        pnum      == Min(pagecount, pagenum)
        offset    == (pnum - 1) * pagelen
        plen      == IF offset + pagelen > results.total
                     THEN results.total - offset ELSE pagelen
    IN  [top |-> results.top, total |-> results.total,
         page |-> Slice(results.top, offset, offset + plen)]

\* lines 313-320: get_search_results
get_search_results(ranked, limit, page) ==
    IF page = 1
    THEN LET r == search(ranked, limit) IN [top |-> r.top, total |-> r.total, page |-> r.top]
    ELSE search_page(ranked, page, limit)

\* (mutant of beyond_last_page: the check is left out)
beyond_last_page_unchecked(page, total_hits, limit) == FALSE

\* lines 336-337, 355-356: if page > math.ceil(total_hits/limit): results = []
beyond_last_page(page, total_hits, limit) == page > Ceil(total_hits, limit)

\* lines 300-320, 353-359: what query() computes on a searcher of idx
\* (a hit is given by its docnum; process_result maps it to its stored fields)
query(idx, q, limit, page, filters, where) ==
    LET pre        == _preprocess_query(q)
        ranked     == Ranked(idx, ParseTerms(pre), Matching(idx, pre, where, filters))
        results    == get_search_results(ranked, limit, page)
        total_hits == scored_length(results)
    IN  [hits |-> IF beyond_last_page(page, total_hits, limit) THEN <<>> ELSE results.page,
         total_hits |-> total_hits]

QueryTexts == { <<"x">>, <<"x", "?">>, <<"y", " ", "x">>, <<"z">>, <<"?">> }
WhereDocuments == { <<>>, <<"y">> }
FilterSets ==
    { {}, {<<"source", <<"a">>>>}, {<<"id", 2>>}, {<<"source", <<"a">>>>, <<"id", 2>>} }

\* the records a store can hold, and the indexes the queries are run on
StoredDocs == { doc2dict(d, uuid4(1)) : d \in InputDocs }
QueryIndexes ==
    { idx \in UNION { [1..n -> StoredDocs] : n \in 0..MaxIndexLen } :
        \A m, n \in DOMAIN idx : idx[m] = idx[n] => m = n }

InitQuery ==
    /\ persist_directory = "dir"
    /\ dirExists = TRUE
    /\ index \in QueryIndexes
    /\ lock = Free
    /\ th = [t \in Threads |-> Idle]
    /\ searchers = 0
    /\ uuidCtr = 0
    /\ last = Returned("init", "ok", 0, <<>>)
    /\ qres = NoResult
    /\ gen = NoGen
    /\ pq = <<>>
    /\ sem = NoCall
    /\ docsGen = NoGen
    /\ mapped = NoCall

\* lines 351-359: query(...) in list form; the with block opens and closes the
\* searcher
QueryList ==
    /\ qres = NoResult /\ gen = NoGen
    /\ \E q \in QueryTexts, limit \in 1..MaxLimit, page \in 1..MaxPage,
          filters \in FilterSets, where \in WhereDocuments :
        LET r == query(index, q, limit, page, filters, where)
        IN  qres' = [op |-> "query", q |-> q, limit |-> limit, page |-> page,
                     filters |-> filters, where |-> where,
                     hits |-> r.hits, total_hits |-> r.total_hits]
    /\ UNCHANGED <<storeVars, index, searchers, gen, pq, callVars>>

\* lines 331-350: query(..., return_generator=True): the searcher is opened;
\* when building the results raises, it is closed and the exception re-raised;
\* otherwise the generator is returned, not yet started
QueryGenerator ==
    /\ qres = NoResult /\ gen = NoGen
    /\ searchers < MaxSearchers
    /\ \E q \in QueryTexts, limit \in 1..MaxLimit, page \in 1..MaxPage,
          filters \in FilterSets, where \in WhereDocuments, raises \in BOOLEAN :
        LET r == query(index, q, limit, page, filters, where)
        IN  IF raises
            THEN /\ gen' = [state |-> "failed", pending |-> <<>>, open |-> FALSE]
                 /\ qres' = [op |-> "query_raised"]
            ELSE /\ gen' = [state |-> "created", pending |-> r.hits, open |-> TRUE]
                 /\ qres' = [op |-> "query_generator", q |-> q, limit |-> limit,
                             page |-> page, filters |-> filters, where |-> where,
                             hits |-> <<>>, total_hits |-> r.total_hits]
    /\ searchers' = IF gen'.open THEN searchers + 1 ELSE searchers
    /\ UNCHANGED <<storeVars, index, pq, callVars>>

\* lines 339-344: next(hits): the generator runs to its next yield; when the
\* results are used up, or process_result raises, its finally closes the searcher
GeneratorNext ==
    /\ gen.state \in {"created", "started"}
    /\ \E raises \in BOOLEAN :
        IF gen.pending = <<>> \/ raises
        THEN /\ gen' = [state |-> IF gen.pending = <<>> THEN "exhausted" ELSE "failed",
                        pending |-> <<>>, open |-> FALSE]
             /\ searchers' = searchers - 1
        ELSE /\ gen' = [state |-> "started", pending |-> Tail(gen.pending), open |-> TRUE]
             /\ UNCHANGED searchers
    /\ UNCHANGED <<storeVars, index, qres, pq, callVars>>

\* the finally of result_generator runs when the generator is closed while it
\* is suspended at its yield; a generator that was never started runs no code
\* when it is closed
closes_searcher(state) == state = "started"

\* hits.close(), or the consumer drops the generator and it is collected
GeneratorClose ==
    /\ gen.state \in {"created", "started"}
    /\ gen' = [state |-> "closed", pending |-> <<>>,
               open |-> IF closes_searcher(gen.state) THEN FALSE ELSE gen.open]
    /\ searchers' = IF closes_searcher(gen.state) THEN searchers - 1 ELSE searchers
    /\ UNCHANGED <<storeVars, index, qres, pq, callVars>>

\* the caller is done with what query() returned
ResultTaken ==
    /\ qres # NoResult
    /\ gen.state \notin {"created", "started"}
    /\ qres' = NoResult
    /\ gen' = NoGen
    /\ UNCHANGED <<storeVars, index, searchers, pq, callVars>>

NextQuery ==
    \/ QueryList \/ QueryGenerator \/ GeneratorNext \/ GeneratorClose \/ ResultTaken

SpecQuery == InitQuery /\ [][NextQuery]_vars

(***************************************************************************)
(* _preprocess_query on its own: every short query text is preprocessed    *)
(* and run, with query()'s default limit and page, on one fixed index.     *)
(***************************************************************************)
\* longest query text
MaxQLen == 3
\* query()'s defaults: limit=10, page=1
DefaultLimit == 10
DefaultPage == 1

QueryChars == {"x", "?", " ", Quote}
AllQueryTexts == UNION { [1..n -> QueryChars] : n \in 0..MaxQLen }

\* an index holding every stored record once
FullIndex ==
    CHOOSE idx \in [1..Cardinality(StoredDocs) -> StoredDocs] :
        /\ \A m, n \in DOMAIN idx : idx[m] = idx[n] => m = n
        /\ \A m, n \in DOMAIN idx : m < n => idx[m].id <= idx[n].id

InitPre ==
    /\ persist_directory = "dir"
    /\ dirExists = TRUE
    /\ index = FullIndex
    /\ lock = Free
    /\ th = [t \in Threads |-> Idle]
    /\ searchers = 0
    /\ uuidCtr = 0
    /\ last = Returned("init", "ok", 0, <<>>)
    /\ qres = NoResult
    /\ gen = NoGen
    /\ pq = <<>>
    /\ sem = NoCall
    /\ docsGen = NoGen
    /\ mapped = NoCall

\* line 300: q = self._preprocess_query(q), and the search the text gets
PreprocessAndQuery ==
    /\ Len(pq) < 2
    /\ \E q \in AllQueryTexts :
        pq' = Append(pq, [q |-> q,
                          out |-> _preprocess_query(q),
                          hits |-> query(index, q, DefaultLimit, DefaultPage, {}, <<>>).hits])
    /\ UNCHANGED <<storeVars, index, searchers, qres, gen, callVars>>

\* the caller starts over
PreprocessForget ==
    /\ Len(pq) = 2
    /\ pq' = <<>>
    /\ UNCHANGED <<storeVars, index, searchers, qres, gen, callVars>>

NextPre == PreprocessAndQuery \/ PreprocessForget

SpecPre == InitPre /\ [][NextPre]_vars

(***************************************************************************)
(* semantic_search(): the lexical candidates of query(), re-ranked by the  *)
(* cosine similarity the embedding model gives them.  A similarity is      *)
(* modelled by its rank among the similarities.                            *)
(***************************************************************************)
\* largest k and n_candidates a semantic search is run with
MaxK == 2
MaxCandidates == 2
\* the similarities range over 0..MaxScore
MaxScore == 1

Scores == 0..MaxScore

\* line 374: self.query(query, limit=n_candidates, return_dict=True,
\* filters=filters, where_document=where_document)['hits']
candidates(idx, q, n_candidates, filters, where) ==
    query(idx, q, n_candidates, DefaultPage, filters, where).hits

\* (mutant of pool_is_empty: the early return is left out)
pool_never_empty(results) == FALSE

\* line 375: if not results: return []
pool_is_empty(results) == results = <<>>

\* (mutant of sorted_by_score: the candidates stay in lexical order)
left_in_lexical_order(results, cos_scores) == [i \in DOMAIN results |-> i]

\* line 391: sorted(results, key=lambda x: x['score'], reverse=True), as the
\* positions of results in their new order; the sort is stable, so of two
\* candidates with the same score the one that came first stays first
sorted_by_score(results, cos_scores) ==
    LET RECURSIVE Sorted(_)
        Sorted(P) ==
            IF P = {} THEN <<>>
            ELSE LET first == CHOOSE i \in P : \A j \in P :
                                \/ cos_scores[i] > cos_scores[j]
                                \/ (cos_scores[i] = cos_scores[j] /\ i <= j)
                 IN  <<first>> \o Sorted(P \ {first})
    IN  Sorted(DOMAIN results)

\* lines 387-392: the score is attached to every candidate, the candidates are
\* sorted and the first k are returned
rerank(results, cos_scores, k) ==
    LET order == sorted_by_score(results, cos_scores)
        top   == Slice(order, 0, k)
    IN  [i \in DOMAIN top |-> [doc |-> results[top[i]], score |-> cos_scores[top[i]]]]

SemQueryTexts == { <<"y", " ", "x">>, <<"x", "?">>, <<"z">> }

\* lines 374-392.  embed_query and embed_documents count the calls made to the
\* embedding model; cos_scores is what util.pytorch_cos_sim returns for the
\* embeddings, one similarity per candidate.
SemanticSearch ==
    /\ sem = NoCall
    /\ \E q \in SemQueryTexts, k \in 0..MaxK, n_candidates \in 1..MaxCandidates,
          filters \in FilterSets, where \in WhereDocuments :
        LET results == candidates(index, q, n_candidates, filters, where)
            call    == [op |-> "semantic_search", q |-> q, k |-> k,
                        n_candidates |-> n_candidates, filters |-> filters,
                        where |-> where, pool |-> results]
        IN  IF pool_is_empty(results)
            THEN sem' = call @@ [cos_scores |-> <<>>, out |-> <<>>,
                                 embed_query |-> 0, embed_documents |-> 0]
            ELSE \E cos_scores \in [DOMAIN results -> Scores] :
                    sem' = call @@ [cos_scores |-> cos_scores,
                                    out |-> rerank(results, cos_scores, k),
                                    embed_query |-> 1, embed_documents |-> 1]
    /\ UNCHANGED <<storeVars, index, searchers, qres, gen, pq, docsGen, mapped>>

\* the caller is done with what semantic_search() returned
SemanticTaken ==
    /\ sem # NoCall
    /\ sem' = NoCall
    /\ UNCHANGED <<storeVars, index, searchers, qres, gen, pq, docsGen, mapped>>

NextSem == SemanticSearch \/ SemanticTaken

SpecSem == InitQuery /\ [][NextSem]_vars

(***************************************************************************)
(* doc2dict on arbitrary metadata.  A key is a tuple of characters, a      *)
(* value a record of its Python type and its repr(), the metadata a tuple  *)
(* of key/value pairs with distinct keys, in the order of the dict.        *)
(***************************************************************************)
\* largest number of metadata keys of a document
MaxMeta == 2

K_id == <<"i", "d">>
K_page_content == <<"p", "a", "g", "e", "_", "c", "o", "n", "t", "e", "n", "t">>
K_source == <<"s", "o", "u", "r", "c", "e">>
K_source_search == <<"s", "o", "u", "r", "c", "e", "_", "s", "e", "a", "r", "c", "h">>
K_filepath == <<"f", "i", "l", "e", "p", "a", "t", "h">>
K_filepath_search == <<"f", "i", "l", "e", "p", "a", "t", "h", "_", "s", "e", "a", "r", "c", "h">>
K_page == <<"p", "a", "g", "e">>

\* self.ix.schema.stored_names(): the declared fields the model's keys can hit
stored_names ==
    { K_id, K_page_content, K_source, K_source_search, K_filepath, K_filepath_search, K_page }

MetaKeys ==
    { K_id, K_source, K_page,
      <<"x">>, <<"x", "_", "b">>, <<"x", "_", "k">>, <<"x", "_", "n">>, <<"x", "_", "d">>, <<"x", "_", "d", "a", "t", "e">> }

MetaValues ==
    { [type |-> "bool", val |-> "True"],
      [type |-> "str", val |-> "'a'"],
      [type |-> "str", val |-> "''"],
      [type |-> "int", val |-> "3"],
      [type |-> "float", val |-> "3.0"],
      [type |-> "NoneType", val |-> "None"],
      [type |-> "list", val |-> "[1]"] }

Metadatas ==
    { md \in UNION { [1..n -> MetaKeys \X MetaValues] : n \in 0..MaxMeta } :
        \A i, j \in DOMAIN md : md[i][1] = md[j][1] => i = j }

\* k.endswith(sfx)
endswith(k, sfx) ==
    Len(sfx) <= Len(k) /\ SubSeq(k, Len(k) - Len(sfx) + 1, Len(k)) = sfx

\* isinstance(v, types): bool is a subclass of int
isinstance(v, types) ==
    v.type \in types \/ (v.type = "bool" /\ "int" \in types)

\* not v
falsy(v) == v.val \in {"None", "False", "0", "0.0", "''", "[]"}

NoSuffix == <<"None">>

\* (mutant of suffix_of: the numeric test comes before the boolean test)
suffix_of_numeric_first(k, v) ==
    IF k \in stored_names THEN <<>>
    ELSE IF isinstance(v, {"int", "float"})
         THEN (IF ~endswith(k, <<"_", "n">>) THEN <<"_", "n">> ELSE <<>>)
    ELSE IF isinstance(v, {"bool"})
         THEN (IF ~endswith(k, <<"_", "b">>) THEN <<"_", "b">> ELSE <<>>)
    ELSE IF isinstance(v, {"str"})
         THEN (IF endswith(k, <<"_", "d", "a", "t", "e">>) THEN <<"_", "d">>
               ELSE IF ~endswith(k, <<"_", "k">>) THEN <<"_", "k">> ELSE <<>>)
    ELSE NoSuffix

\* lines 447-458: the suffix a metadata key gets, NoSuffix for None
suffix_of(k, v) ==
    IF k \in stored_names THEN <<>>
    ELSE IF isinstance(v, {"bool"})
         THEN (IF ~endswith(k, <<"_", "b">>) THEN <<"_", "b">> ELSE <<>>)
    ELSE IF isinstance(v, {"str"})
         THEN (IF endswith(k, <<"_", "d", "a", "t", "e">>) THEN <<"_", "d">>
               ELSE IF ~endswith(k, <<"_", "k">>) THEN <<"_", "k">> ELSE <<>>)
    ELSE IF isinstance(v, {"int", "float"})
         THEN (IF ~endswith(k, <<"_", "n">>) THEN <<"_", "n">> ELSE <<>>)
    ELSE NoSuffix

\* d[key] = v
setitem(d, key, v) == [x \in DOMAIN d \cup {key} |-> IF x = key THEN v ELSE d[x]]

\* lines 445-460: the loop over doc.metadata.items()
RECURSIVE map_items(_, _)
map_items(d, md) ==
    IF md = <<>> THEN d
    ELSE LET k      == Head(md)[1]
             v      == Head(md)[2]
             suffix == suffix_of(k, v)
         IN  map_items(IF suffix # NoSuffix THEN setitem(d, k \o suffix, v) ELSE d,
                       Tail(md))

\* doc.metadata.get(key, default)
metadata_get(md, key, default) ==
    IF \E i \in DOMAIN md : md[i][1] = key
    THEN md[CHOOSE i \in DOMAIN md : md[i][1] = key][2]
    ELSE default

\* lines 444-468: doc2dict for a document with the metadata md; page_content
\* is the repr() of the normalized text, uuid that of uuid.uuid4().hex
doc2dict_metadata(md, page_content, uuid) ==
    LET d0 == map_items(<<>>, md)
        id == IF falsy(metadata_get(md, K_id, [type |-> "str", val |-> "''"]))
              THEN [type |-> "str", val |-> uuid]
              ELSE metadata_get(md, K_id, [type |-> "str", val |-> "''"])
        d1 == setitem(d0, K_id, id)
        d2 == setitem(d1, K_page_content,
                      [type |-> "str", val |-> page_content])
        d3 == IF K_source \in DOMAIN d2 THEN setitem(d2, K_source_search, d2[K_source]) ELSE d2
        d4 == IF K_filepath \in DOMAIN d3
              THEN setitem(d3, K_filepath_search, d3[K_filepath]) ELSE d3
    IN  d4

\* line 138: d = self.doc2dict(doc)
MapDocument ==
    /\ mapped = NoCall
    /\ \E md \in Metadatas :
        mapped' = [op |-> "doc2dict", metadata |-> md,
                   d |-> doc2dict_metadata(md, "'x'", "'uuid4'")]
    /\ UNCHANGED <<storeVars, index, searchers, qres, gen, pq, sem, docsGen>>

\* the caller is done with the mapped record
MappedTaken ==
    /\ mapped # NoCall
    /\ mapped' = NoCall
    /\ UNCHANGED <<storeVars, index, searchers, qres, gen, pq, sem, docsGen>>

NextMap == MapDocument \/ MappedTaken

SpecMap == Init /\ [][NextMap]_vars

(***************************************************************************)
(* The reading calls of one caller: query() in list form, get_doc,         *)
(* semantic_search, get_all_docs, and delete_by_prefix, whose scan reads.  *)
(***************************************************************************)
\* no call of the caller is under way and nothing it was handed is in use
CallerFree ==
    /\ qres = NoResult /\ gen = NoGen /\ sem = NoCall /\ docsGen = NoGen
    /\ \A t \in Threads : th[t].pc = "idle"

\* line 215: self.query(f'id:{id}', return_dict=True): the hits of the term
\* id:<id>, at most limit of them
id_query(idx, id) ==
    LET M == { n \in DOMAIN idx : id \in Terms("id", idx[n]) }
        ranked == Ranked(idx, {}, M)
    IN  search(ranked, DefaultLimit).top

\* line 216: r['hits'][0] if len(r['hits']) > 0 else None (None is 0)
get_doc(idx, id) ==
    LET hits == id_query(idx, id) IN IF Len(hits) > 0 THEN hits[1] ELSE 0

\* lines 211-216: get_doc(id); query() opens its searcher in a with block,
\* which closes it when the call returns and when it raises
GetDoc ==
    /\ CallerFree
    /\ \E id \in {1, 2}, raises \in BOOLEAN :
        last' = IF raises
                THEN Returned("get_doc", "raised", 0, id)
                ELSE Returned("get_doc", "ok", get_doc(index, id), id)
    /\ UNCHANGED <<persist_directory, dirExists, index, lock, th, searchers, uuidCtr,
                   qres, gen, pq, callVars>>

\* lines 204-208: self.ix.searcher().documents(): a searcher is opened and
\* the generator over its stored documents is returned
GetAllDocs ==
    /\ CallerFree
    /\ searchers < MaxSearchers
    /\ docsGen' = [state |-> "created", pending |-> index, open |-> TRUE]
    /\ searchers' = searchers + 1
    /\ UNCHANGED <<storeVars, index, qres, gen, pq, sem, mapped>>

\* next() on the returned generator: the next stored document, or the end of
\* the sequence; the generator holds no code that closes the searcher
AllDocsNext ==
    /\ docsGen.state \in {"created", "started"}
    /\ docsGen' = IF docsGen.pending = <<>>
                  THEN [docsGen EXCEPT !.state = "exhausted"]
                  ELSE [docsGen EXCEPT !.state = "started", !.pending = Tail(@)]
    /\ UNCHANGED <<storeVars, index, searchers, qres, gen, pq, sem, mapped>>

\* the caller closes or drops the generator; get_all_docs kept no reference to
\* the searcher and nothing calls its close()
AllDocsDrop ==
    /\ docsGen.state \in {"created", "started"}
    /\ docsGen' = [docsGen EXCEPT !.state = "dropped", !.pending = <<>>]
    /\ UNCHANGED <<storeVars, index, searchers, qres, gen, pq, sem, mapped>>

\* the caller is done with the sequence
AllDocsForget ==
    /\ docsGen.state \in {"exhausted", "dropped"}
    /\ docsGen' = NoGen
    /\ UNCHANGED <<storeVars, index, searchers, qres, gen, pq, sem, mapped>>

ReadQuery == CallerFree /\ QueryList
ReadSemantic == CallerFree /\ SemanticSearch
ReadPrefixScan == CallerFree /\ DbpScan(1)

NextRead ==
    \/ ReadQuery \/ ResultTaken
    \/ GetDoc
    \/ ReadSemantic \/ SemanticTaken
    \/ GetAllDocs \/ AllDocsNext \/ AllDocsDrop \/ AllDocsForget
    \/ ReadPrefixScan \/ DbpOpenWriter(1) \/ DbpCommit(1) \/ DbpRaise(1)

SpecRead == InitPre /\ [][NextRead]_vars

(***************************************************************************)
(* Claims on query().                                                      *)
(***************************************************************************)
Range(s) == { s[i] : i \in DOMAIN s }

\* the docnums that match the query qres records
QresMatching == Matching(index, _preprocess_query(qres.q), qres.where, qres.filters)

\* C2: total_hits returned by query() is the number of documents that match
\* the query and filters, whatever the page and the limit.
C2_TotalHitsIsMatchCount ==
    qres.op \in {"query", "query_generator"}
        => qres.total_hits = Cardinality(QresMatching)

\* C3: for the index, query and limit of the query just run, the returned page
\* has at most limit hits, all of them matching and none twice; pages
\* 1..ceil(N/limit) are pairwise disjoint and together hold every matching
\* document; a page beyond ceil(N/limit) is empty.
C3_PagesPartitionMatches ==
    qres.op = "query" =>
        LET N == Cardinality(QresMatching)
            P == Ceil(N, qres.limit)
            hitsOf(p) == query(index, qres.q, qres.limit, p, qres.filters, qres.where).hits
        IN  /\ Len(qres.hits) <= qres.limit
            /\ Range(qres.hits) \subseteq QresMatching
            /\ Cardinality(Range(qres.hits)) = Len(qres.hits)
            /\ qres.page > P => qres.hits = <<>>
            /\ qres.page <= P => qres.hits # <<>>
            /\ \A p1, p2 \in 1..P :
                   p1 # p2 => Range(hitsOf(p1)) \cap Range(hitsOf(p2)) = {}
            /\ UNION { Range(hitsOf(p)) : p \in 1..P } = QresMatching
            /\ \A p \in (P + 1)..(MaxPage + 1) : hitsOf(p) = <<>>

C3_Witness ==
    /\ qres.op = "query" /\ qres.limit = 1 /\ qres.page = 2
    /\ Cardinality(QresMatching) = 3
    /\ Len(qres.hits) = 1

\* the hits the last query() call hands out: the list, or what the generator
\* is still to yield
QresHits == IF qres.op = "query" THEN Range(qres.hits) ELSE Range(gen.pending)

\* C13 as claimed: every hit of a filtered query has, for each filter field, a
\* stored value equal to the filter value.
C13_HitsStoreFilterValue ==
    qres.op \in {"query", "query_generator"} =>
        \A n \in QresHits : \A f \in qres.filters :
            /\ f[1] = "id" => index[n].id = f[2]
            /\ f[1] = "source" => index[n].source = f[2]

\* C13, amended: every hit of a filtered query, on any page and in list or
\* lazy form, has for each filter field the filter value among the terms its
\* stored value is indexed under: the stored value itself for id, one of the
\* comma-separated parts of the stored value for source.  The clauses are
\* AND-ed: a record failing one of them is never a hit.
C13_HitsPassEveryFilter ==
    qres.op \in {"query", "query_generator"} =>
        \A n \in QresHits : \A f \in qres.filters :
            /\ f[1] = "id" => index[n].id = f[2]
            /\ f[1] = "source" =>
                   /\ index[n].source # NoSource
                   /\ f[2] \in SplitOn(index[n].source, {","})

\* a two-clause filter keeps one record and drops a record that matches more
\* of the query's words
C13_Witness ==
    /\ qres.op = "query" /\ Cardinality(qres.filters) = 2
    /\ qres.q = <<"y", " ", "x">> /\ qres.where = <<>>
    /\ Len(qres.hits) = 1
    /\ \E m \in DOMAIN index :
           /\ Score(index[m], ParseTerms(qres.q)) > Score(index[qres.hits[1]], ParseTerms(qres.q))
           /\ m \notin Range(qres.hits)

\* C5: the searcher of query(return_generator=True) is open while the generator
\* can still produce hits, and closed once the generator is exhausted, closed
\* or dropped by the consumer, or has raised.
C5_GeneratorSearcherLifetime ==
    /\ gen.state \in {"created", "started"} => gen.open
    /\ gen.state \in {"exhausted", "closed", "failed"} => ~gen.open

\* C10: for a query text q that does not end in '?', q + '?' is preprocessed to
\* the same text as q, and query() returns the same hits in the same order.
C10_QuestionMarkIgnored ==
    \A i, j \in DOMAIN pq :
        (/\ pq[j].q = pq[i].q \o <<"?">>
         /\ (pq[i].q = <<>> \/ pq[i].q[Len(pq[i].q)] # "?"))
            => (pq[j].out = pq[i].out /\ pq[j].hits = pq[i].hits)

C10_Witness ==
    /\ Len(pq) = 2
    /\ pq[1].q = <<"x">>
    /\ pq[2].q = <<"x", "?">>
    /\ pq[2].hits # <<>>

\* C15: the output of _preprocess_query does not end with '?', holds no '?'
\* directly before a blank, a double quote or the end of the text, and is
\* left as it is by a second _preprocess_query.
C15_NoTrailingQuestionMarks ==
    \A i \in DOMAIN pq :
        LET out == pq[i].out
        IN  /\ \A n \in DOMAIN out :
                   out[n] = "?" =>
                       /\ n < Len(out)
                       /\ out[n + 1] \notin Blanks \cup {Quote}
            /\ _preprocess_query(out) = out

(***************************************************************************)
(* Claims on the mutation handlers.                                        *)
(***************************************************************************)
WritingPcs == {"add_writing", "rm_writing", "dbp_writing"}

\* C1: after any sequence of add_documents / update_documents calls the index
\* holds exactly one live record per id.
C1_OneRecordPerId ==
    \A m, n \in DOMAIN index : index[m].id = index[n].id => m = n

\* C4: a delete_by_prefix call that commits removes exactly the records whose
\* source value starts with the prefix and returns the number by which
\* get_size() went down; a call that returns 0 without a writer found no
\* record whose source value starts with the prefix and changes nothing.
C4_DeletesExactlyPrefixed ==
    [][\A t \in Threads :
        /\ (th[t].pc = "dbp_writing" /\ th'[t].pc = "idle" /\ last'.status = "ok")
            => /\ index' = DropAt(index, StartsWithPrefix(index, th[t].arg))
               /\ last'.val = get_size(index) - get_size(index')
        /\ (DbpScan(t) /\ th'[t].pc = "idle")
            => /\ StartsWithPrefix(index, last'.args) = {}
               /\ last'.val = 0
               /\ index' = index /\ lock' = lock
      ]_vars

\* C6: erase(confirm=False) returns normally and get_size() is 0 afterwards,
\* for the persistent and for the in-memory store.
C6_EraseAlwaysProceeds ==
    [][\A t \in Threads :
        (Erase(t) /\ last'.args[1] = FALSE)
            => (last'.status = "ok" /\ get_size(index') = 0)
      ]_vars

\* C7: erase(confirm=True) answered with anything but "Y", and erase on a
\* persistent store whose index is no longer in persist_directory, return
\* False without raising and leave the index as it is.
C7_DeclinedEraseIsNoOp ==
    [][\A t \in Threads :
        (/\ Erase(t)
         /\ \/ (last'.args[1] /\ last'.args[2] # "Y")
            \/ (persist_directory = "dir" /\ ~dirExists))
            => (last'.status = "ok" /\ last'.val = 0 /\ index' = index)
      ]_vars

C7_Witness ==
    /\ last.op = "erase" /\ last.status = "ok" /\ last.val = 0
    /\ last.args = <<TRUE, "n">>
    /\ get_size(index) > 0

\* C8: when add_documents raises after opening its writer, the committed index
\* is what it was when the writer was opened (or what an erase made of it since):
\* no document of the batch is visible and no record it replaces is gone.
C8_FailedBatchInvisible ==
    [][\A t \in Threads :
        (th[t].pc = "add_writing" /\ th'[t].pc = "idle" /\ last'.status = "raised")
            => /\ index' = index
               /\ (index = th[t].w.base \/ index = <<>>)
      ]_vars

C8_Witness ==
    /\ last.op = "add_documents" /\ last.status = "raised"
    /\ get_size(index) > 0

\* C9: at most one writer is open at any time, and no call that needs a writer
\* fails because another writer is open.
C9_WritersSerializeByBlocking ==
    /\ Cardinality({ t \in Threads : th[t].pc \in WritingPcs })
         + (IF lock = Abandoned THEN 1 ELSE 0) <= 1
    /\ last.status # "LockError"

(***************************************************************************)
(* Claims on semantic_search().                                            *)
(***************************************************************************)
\* the lexical candidate pool of the semantic search sem records
SemPool == query(index, sem.q, sem.n_candidates, DefaultPage, sem.filters, sem.where).hits

\* C11: semantic_search returns at most k documents, each one a member of the
\* lexical candidate pool (which holds at most n_candidates documents), none
\* twice, in order of non-increasing similarity, and no candidate left out has
\* a strictly higher similarity than a returned one.
C11_TopKOfCandidates ==
    sem.op = "semantic_search" =>
        LET out      == sem.out
            scoreOf  == [i \in DOMAIN SemPool |-> sem.cos_scores[i]]
            returned == { out[i].doc : i \in DOMAIN out }
        IN  /\ Len(out) <= sem.k
            /\ Len(SemPool) <= sem.n_candidates
            /\ returned \subseteq Range(SemPool)
            /\ Cardinality(returned) = Len(out)
            /\ \A i, j \in DOMAIN out : i < j => out[i].score >= out[j].score
            /\ \A i \in DOMAIN out : \E p \in DOMAIN SemPool :
                   SemPool[p] = out[i].doc /\ scoreOf[p] = out[i].score
            /\ \A p \in DOMAIN SemPool :
                   SemPool[p] \notin returned
                       => \A i \in DOMAIN out : scoreOf[p] <= out[i].score

C11_Witness ==
    /\ sem.op = "semantic_search" /\ sem.k = 1
    /\ Len(sem.pool) = 2 /\ sem.cos_scores = <<0, 1>>
    /\ Len(sem.out) = 1 /\ sem.out[1].doc = sem.pool[2]
    /\ get_size(index) = 3

\* C12: when the lexical candidate pool is empty, semantic_search returns an
\* empty result and neither embed_query nor embed_documents has been called.
C12_EmptyPoolNoEmbedding ==
    (sem.op = "semantic_search" /\ SemPool = <<>>)
        => (sem.out = <<>> /\ sem.embed_query = 0 /\ sem.embed_documents = 0)

C12_Witness ==
    /\ sem.op = "semantic_search" /\ sem.pool = <<>>
    /\ sem.embed_query = 0
    /\ get_size(index) > 0

(***************************************************************************)
(* Claims on doc2dict.                                                     *)
(***************************************************************************)
\* the key the claim gives a metadata pair, <<>> for a pair that is dropped
ClaimedKey(k, v) ==
    IF k \in stored_names THEN k
    ELSE IF v.type = "bool" THEN (IF endswith(k, <<"_", "b">>) THEN k ELSE k \o <<"_", "b">>)
    ELSE IF v.type = "str"
         THEN (IF endswith(k, <<"_", "d", "a", "t", "e">>) THEN k \o <<"_", "d">>
               ELSE IF endswith(k, <<"_", "k">>) THEN k ELSE k \o <<"_", "k">>)
    ELSE IF v.type \in {"int", "float"} THEN (IF endswith(k, <<"_", "n">>) THEN k ELSE k \o <<"_", "n">>)
    ELSE <<>>

\* the kind of value a glob suffix stands for
SuffixFits(key, v) ==
    \/ endswith(key, <<"_", "b">>) /\ v.type = "bool"
    \/ endswith(key, <<"_", "k">>) /\ v.type = "str"
    \/ endswith(key, <<"_", "d">>) /\ v.type = "str"
    \/ endswith(key, <<"_", "n">>) /\ v.type \in {"int", "float"}

\* C14: doc2dict keeps a declared key as it is, gives a boolean '_b', a string
\* '_d' (key ending in '_date') or '_k', a number '_n' (no second '_b', '_k',
\* '_n'), and drops a pair of any other type; so every key of the mapped
\* record is a declared field or ends with the suffix of its value's type.
C14_SuffixByValueType ==
    mapped.op = "doc2dict" =>
        LET md == mapped.metadata
            d  == mapped.d
            kept == { i \in DOMAIN md : ClaimedKey(md[i][1], md[i][2]) # <<>> }
        IN  /\ \A i \in kept :
                  LET key == ClaimedKey(md[i][1], md[i][2])
                  IN  /\ key \in DOMAIN d
                      /\ key \notin {K_id, K_source_search}
                             => \E j \in kept : /\ ClaimedKey(md[j][1], md[j][2]) = key
                                                /\ d[key] = md[j][2]
            /\ DOMAIN d \ stored_names
                   = { ClaimedKey(md[i][1], md[i][2]) : i \in kept } \ stored_names
            /\ \A key \in DOMAIN d : key \in stored_names \/ SuffixFits(key, d[key])

C14_Witness ==
    /\ mapped.op = "doc2dict" /\ Len(mapped.metadata) = 2
    /\ mapped.metadata[1] = << <<"x", "_", "d", "a", "t", "e">>, [type |-> "str", val |-> "'a'"] >>
    /\ mapped.metadata[2] = << <<"x", "_", "b">>, [type |-> "list", val |-> "[1]"] >>
    /\ DOMAIN mapped.d = { <<"x", "_", "d", "a", "t", "e", "_", "d">>, K_id, K_page_content }

(***************************************************************************)
(* Claims on the searchers of the reading calls.                           *)
(***************************************************************************)
\* C16: once the calls of query (list form), get_doc, semantic_search,
\* delete_by_prefix and get_all_docs have returned or raised, and the sequence
\* get_all_docs returned is exhausted or dropped, no searcher is open.
C16_NoSearcherLeftOpen ==
    (/\ \A t \in Threads : th[t].pc = "idle"
     /\ docsGen.state \notin {"created", "started"})
        => searchers = 0

(***************************************************************************)
(* Claims on failed and interleaved writes.                                *)
(***************************************************************************)
\* C17: a write lock that is held belongs to a call that is still writing:
\* once add_documents, remove_document or delete_by_prefix has raised between
\* opening its writer and committing, its writer is ended and the next write
\* call can open one.
C17_FailedWriteFreesWritePath ==
    lock.held => (lock.owner \in Threads /\ th[lock.owner].pc \in WritingPcs)

\* a source value that the schema indexes as one term
OneTerm(rec) == rec.source = NoSource \/ "," \notin Range(rec.source)

\* C18: a delete_by_prefix call that commits, whatever add_documents,
\* remove_document or delete_by_prefix calls committed between its scan and the
\* opening of its writer, removes no record whose source value does not start
\* with the prefix, and returns the number of records it removed.  (Stated
\* for a writer whose index nothing but its own commit changes, and for
\* indexes whose source values are single terms, for which an uninterrupted
\* call deletes exactly the prefixed records.)
C18_ExactUnderInterleaving ==
    [][\A t \in Threads :
        (/\ th[t].pc = "dbp_writing" /\ th'[t].pc = "idle" /\ last'.status = "ok"
         /\ index = th[t].w.base
         /\ \A n \in DOMAIN index : OneTerm(index[n]))
            => /\ \A n \in DOMAIN index :
                      (\A m \in DOMAIN index' : index'[m] # index[n])
                          => n \in StartsWithPrefix(index, th[t].arg)
               /\ last'.val = get_size(index) - get_size(index')
      ]_vars

====
